---- MODULE Spec2Model ----
(***************************************************************************)
(* Credit Card Statement Allocator (src/app.py).                           *)
(*                                                                         *)
(* A table (pandas DataFrame) is [cols, rows]: cols is the header, a       *)
(* sequence of distinct column names, and rows is a sequence of rows, each *)
(* a sequence of cells aligned with cols.  A cell is [k, v]:               *)
(*   k = "num"   a number; v is the amount in thousandths of a dollar      *)
(*   k = "nan"   a blank cell (pandas NaN)                                 *)
(*   k = "text"  a non-numeric string (v = 0 is the empty string '')       *)
(*   k = "Balanced" / "Off by $"  an Allocation_Status string; v is the    *)
(*               amount printed by the :.2f format, in cents               *)
(* Amounts are exact integers; binary floating point error is not          *)
(* modelled.                                                               *)
(***************************************************************************)
EXTENDS Integers, Sequences, FiniteSets, TLC

(***************************************************************************)
(* pc                    where the script run stands                       *)
(* df                    the table read from the uploaded file             *)
(* detected              what detect_amount_column returned                *)
(* selected              the option of 'Select the amount column:' (1 is   *)
(*                       the first column, the widget's value until the    *)
(*                       user picks another; 0: the widget was not shown)  *)
(* manual_amount_column  the option of 'Override amount column:'           *)
(* amount_column         the amount column the run goes on with            *)
(* processed_df          the result of process_credit_card_data            *)
(* edits                 cells of processed_df changed since               *)
(* validation            the result of validate_allocations                *)
(* exports               the download files produced                       *)
(* excel_n, excel_col    an argument and the result of num_to_excel_col    *)
(* metrics               total_amount, total_allocated and their           *)
(*                       difference, as shown after processing             *)
(* enhanced_df           the result of create_excel_with_formulas          *)
(* summary_df            the summary report                                *)
(***************************************************************************)
VARIABLES pc, df, detected, selected, manual_amount_column, amount_column,
          processed_df, edits, validation, exports, excel_n, excel_col,
          metrics, enhanced_df, summary_df

vars == <<pc, df, detected, selected, manual_amount_column, amount_column,
          processed_df, edits, validation, exports, excel_n, excel_col,
          metrics, enhanced_df, summary_df>>

(***************************************************************************)
(* Bounds of the model.                                                    *)
(***************************************************************************)
\* widest uploaded table, in columns
MaxCols == 6
\* longest uploaded table, in rows
MaxRows == 2
\* widest table handed to detect_amount_column on its own
MaxDetectCols == 5
\* largest column number handed to num_to_excel_col on its own
MaxExcelCol == 703
\* most cells changed in a processed table before it is validated
MaxEdits == 1

(***************************************************************************)
(* Cells.                                                                  *)
(***************************************************************************)
Num(x) == [k |-> "num", v |-> x]

NaN == [k |-> "nan", v |-> 0]

Text == [k |-> "text", v |-> 1]

EmptyString == [k |-> "text", v |-> 0]

Abs(x) == IF x < 0 THEN -x ELSE x

\* the balance tolerance 0.01, in thousandths
Epsilon == 10

\* the table's column count at which columns D and E are read by position
MinColumnsForDE == 6

(***************************************************************************)
(* ENTITIES and the other column names the program adds.                   *)
(***************************************************************************)
ENTITIES == << "Panola Holdings LLC", "Robert Dow (Personal)", "RLV22 LLC",
               "CSD Van Zandt LLC", "Goodfire Realty LLC", "NDRE III LLC" >>

None == "None"

AutoDetect == "Auto-detect"

Range(s) == { s[i] : i \in 1..Len(s) }

(***************************************************************************)
(* DataFrame operations.                                                   *)
(***************************************************************************)
NoTable == [cols |-> <<>>, rows |-> <<>>]

NumRows(t) == Len(t.rows)

HasCol(t, name) == name \in Range(t.cols)

ColIdx(t, name) == CHOOSE i \in 1..Len(t.cols) : t.cols[i] = name

\* df[name]: the column as a sequence of cells, one per row
Col(t, name) == [r \in 1..NumRows(t) |-> t.rows[r][ColIdx(t, name)]]

\* df[name] = vals: overwrite the column in place, or append a new last column
SetCol(t, name, vals) ==
    IF HasCol(t, name)
    THEN [t EXCEPT !.rows = [r \in 1..NumRows(t) |->
                               [t.rows[r] EXCEPT ![ColIdx(t, name)] = vals[r]]]]
    ELSE [cols |-> Append(t.cols, name),
          rows |-> [r \in 1..NumRows(t) |-> Append(t.rows[r], vals[r])]]

\* pd.to_numeric(cell, errors='coerce'): what does not parse becomes NaN
ToNumeric(c) == IF c.k = "num" THEN c ELSE NaN

\* .fillna(0)
FillNa0(c) == IF c.k = "nan" THEN Num(0) ELSE c

\* pd.to_numeric(series, errors='coerce').fillna(0)
Coerce(series) == [r \in 1..Len(series) |-> FillNa0(ToNumeric(series[r]))]

\* series + series, on coerced (all-number) series
AddSeries(a, b) == [r \in 1..Len(a) |-> Num(a[r].v + b[r].v)]

SubSeries(a, b) == [r \in 1..Len(a) |-> Num(a[r].v - b[r].v)]

RECURSIVE SumCells(_)
\* series.sum(): NaN is skipped
SumCells(s) ==
    IF Len(s) = 0 THEN 0
    ELSE (IF s[1].k = "num" THEN s[1].v ELSE 0) + SumCells(Tail(s))

\* dtype in ['float64', 'int64']: read_csv types a column numeric when every
\* cell is a number or blank; a column of an empty table is typed object
NumericDtype(t, name) ==
    /\ NumRows(t) > 0
    /\ \A r \in 1..NumRows(t) : Col(t, name)[r].k \in {"num", "nan"}

(***************************************************************************)
(* Column names of uploaded tables, with their spelling: TLC's strings are *)
(* atomic, so str.lower() and str.find() work on the spelled name.  The    *)
(* statement's own headers never collide with the columns the program adds.*)
(***************************************************************************)
PlainNames == << "Date", "Description", "Category", "Debit", "Credit",
                 "Balance", "Type", "Notes" >>

UpperCase == << "A", "B", "C", "D", "E", "F", "G", "H", "I", "J", "K", "L", "M",
                "N", "O", "P", "Q", "R", "S", "T", "U", "V", "W", "X", "Y", "Z" >>

LowerCase == << "a", "b", "c", "d", "e", "f", "g", "h", "i", "j", "k", "l", "m",
                "n", "o", "p", "q", "r", "s", "t", "u", "v", "w", "x", "y", "z" >>

Spell(n) ==
    CASE n = "Date" -> <<"D", "a", "t", "e">>
      [] n = "Description" -> <<"D", "e", "s", "c", "r", "i", "p", "t", "i", "o", "n">>
      [] n = "Category" -> <<"C", "a", "t", "e", "g", "o", "r", "y">>
      [] n = "Debit" -> <<"D", "e", "b", "i", "t">>
      [] n = "Credit" -> <<"C", "r", "e", "d", "i", "t">>
      [] n = "Balance" -> <<"B", "a", "l", "a", "n", "c", "e">>
      [] n = "Type" -> <<"T", "y", "p", "e">>
      [] n = "Notes" -> <<"N", "o", "t", "e", "s">>
      [] n = "Amount" -> <<"A", "m", "o", "u", "n", "t">>
      [] n = "Billing AMOUNT" -> <<"B", "i", "l", "l", "i", "n", "g", " ", "A", "M", "O", "U", "N", "T">>
      [] n = "Memo" -> <<"M", "e", "m", "o">>
      [] OTHER -> <<>>

\* str.lower()
Lower(s) ==
    [i \in 1..Len(s) |->
        IF \E j \in 1..26 : UpperCase[j] = s[i]
        THEN LowerCase[CHOOSE j \in 1..26 : UpperCase[j] = s[i]]
        ELSE s[i]]

\* s.find(sub) != -1
Contains(s, sub) ==
    \E i \in 1..(Len(s) - Len(sub) + 1) : SubSeq(s, i, i + Len(sub) - 1) = sub

(***************************************************************************)
(* detect_amount_column                                                    *)
(***************************************************************************)
possible_amount_columns ==
    << "Amount", "amount", "AMOUNT", "Transaction Amount", "Trans Amount",
       "Trans. Amount", "Debit", "Credit", "Balance", "Value",
       "Purchase Amount", "Charge Amount" >>

RECURSIVE FirstListed(_, _)
\* for col in possible_amount_columns: if col in df.columns: return col
FirstListed(t, i) ==
    IF i > Len(possible_amount_columns) THEN None
    ELSE IF HasCol(t, possible_amount_columns[i]) THEN possible_amount_columns[i]
    ELSE FirstListed(t, i + 1)

LooksLikeAmount(t, col) ==
    \/ NumericDtype(t, col)
    \/ Contains(Lower(Spell(col)), <<"a", "m", "o", "u", "n", "t">>)

RECURSIVE FirstLikely(_, _)
\* for col in df.columns: if numeric dtype or 'amount' in col.lower(): return col
FirstLikely(t, j) ==
    IF j > Len(t.cols) THEN None
    ELSE IF LooksLikeAmount(t, t.cols[j]) THEN t.cols[j]
    ELSE FirstLikely(t, j + 1)

\* a variant that runs the two loops in the other order
detect_likely_first(t) ==
    IF FirstLikely(t, 1) # None THEN FirstLikely(t, 1) ELSE FirstListed(t, 1)

detect_amount_column(t) ==
    IF FirstListed(t, 1) # None THEN FirstListed(t, 1) ELSE FirstLikely(t, 1)

(***************************************************************************)
(* process_credit_card_data                                                *)
(***************************************************************************)
Zeros(t) == [r \in 1..NumRows(t) |-> Num(0)]

\* processed_df[amount_column] = pd.to_numeric(..., errors='coerce').fillna(0)
CoerceAmount(t, amount) == SetCol(t, amount, Coerce(Col(t, amount)))

RECURSIVE AddEntityColumns(_, _)
\* for entity in ENTITIES: processed_df[entity] = 0.0
AddEntityColumns(t, i) ==
    IF i > Len(ENTITIES) THEN t
    ELSE AddEntityColumns(SetCol(t, ENTITIES[i], Zeros(t)), i + 1)

\* a variant of the default allocation that always takes the amount column
DefaultAllocationFromAmount(t, amount) ==
    SetCol(t, "Panola Holdings LLC", Col(t, amount))

\* the default allocation: columns is the header after the entity columns
\* were added, and D and E are its 4th and 5th names.  to_numeric with
\* errors='coerce' does not raise on the strings, numbers and blanks that
\* read_csv yields, so the except branch has no case here.
DefaultAllocation(t, amount) ==
    LET columns == t.cols IN
    IF Len(columns) >= MinColumnsForDE
    THEN LET col_d == columns[4]
             col_e == columns[5]
             t1 == SetCol(t, col_d, Coerce(Col(t, col_d)))
             t2 == SetCol(t1, col_e, Coerce(Col(t1, col_e)))
         IN  SetCol(t2, "Panola Holdings LLC",
                    AddSeries(Col(t2, col_d), Col(t2, col_e)))
    ELSE SetCol(t, "Panola Holdings LLC", Col(t, amount))

\* processed_df[ENTITIES].sum(axis=1)
EntitySum(t) ==
    [r \in 1..NumRows(t) |->
        Num(SumCells([i \in 1..Len(ENTITIES) |-> Col(t, ENTITIES[i])[r]]))]

\* a variant of the check against the amount column alone
AllocationCheckFromAmount(t, columns, amount) ==
    SubSeries(Col(t, amount), Col(t, "Total_Allocated"))

\* the Allocation_Check column; columns is the header before Total_Allocated
\* was added
AllocationCheck(t, columns, amount) ==
    IF Len(columns) >= MinColumnsForDE
    THEN SubSeries(AddSeries(Coerce(Col(t, columns[4])),
                             Coerce(Col(t, columns[5]))),
                   Col(t, "Total_Allocated"))
    ELSE SubSeries(Col(t, amount), Col(t, "Total_Allocated"))

\* f'{x:.2f}': thousandths rounded to the nearest cent (a tie to the even cent)
Format2f(x) ==
    LET q == x \div 10
        r == x % 10
    IN  IF r < 5 THEN q
        ELSE IF r > 5 THEN q + 1
        ELSE IF q % 2 = 0 THEN q ELSE q + 1

\* a variant of the status without abs(): x < 0.01
AllocationStatusNoAbs(c) ==
    IF c.v < Epsilon THEN [k |-> "Balanced", v |-> 0]
    ELSE [k |-> "Off by $", v |-> Format2f(c.v)]

\* lambda x: 'Balanced' if abs(x) < 0.01 else f'Off by ${x:.2f}'
AllocationStatus(c) ==
    IF Abs(c.v) < Epsilon THEN [k |-> "Balanced", v |-> 0]
    ELSE [k |-> "Off by $", v |-> Format2f(c.v)]

process_credit_card_data(t, amount) ==
    LET p1 == CoerceAmount(t, amount)
        p2 == AddEntityColumns(p1, 1)
        columns == p2.cols
        p3 == DefaultAllocation(p2, amount)
        p4 == SetCol(p3, "Total_Allocated", EntitySum(p3))
        p5 == SetCol(p4, "Allocation_Check", AllocationCheck(p4, columns, amount))
        p6 == SetCol(p5, "Allocation_Status",
                     [r \in 1..NumRows(p5) |->
                         AllocationStatus(Col(p5, "Allocation_Check")[r])])
    IN  SetCol(p6, "Property", [r \in 1..NumRows(p6) |-> EmptyString])

(***************************************************************************)
(* validate_allocations                                                    *)
(***************************************************************************)
\* a variant of the filter with > in place of >=
UnbalancedStrict(t) ==
    SelectSeq(Col(t, "Allocation_Check"),
              LAMBDA c : c.k = "num" /\ Abs(c.v) > Epsilon)

\* df[abs(df['Allocation_Check']) >= 0.01]: the kept rows' checks
Unbalanced(t) ==
    SelectSeq(Col(t, "Allocation_Check"),
              LAMBDA c : c.k = "num" /\ Abs(c.v) >= Epsilon)

EntityTotals(t) == [e \in Range(ENTITIES) |-> SumCells(Col(t, e))]

TotalTransactions(t, amount) ==
    LET columns == t.cols IN
    IF Len(columns) >= MinColumnsForDE
    THEN SumCells(Coerce(Col(t, columns[4]))) + SumCells(Coerce(Col(t, columns[5])))
    ELSE SumCells(Col(t, amount))

validate_allocations(t, amount) ==
    LET unbalanced == Unbalanced(t)
        total_transactions == TotalTransactions(t, amount)
        total_allocated == SumCells(Col(t, "Total_Allocated"))
    IN  [unbalanced_count |-> Len(unbalanced),
         total_unallocated |-> SumCells(unbalanced),
         entity_totals |-> EntityTotals(t),
         total_transactions |-> total_transactions,
         total_allocated |-> total_allocated,
         grand_total_check |-> total_transactions - total_allocated]

NoValidation ==
    [unbalanced_count |-> 0, total_unallocated |-> 0,
     entity_totals |-> [e \in Range(ENTITIES) |-> 0],
     total_transactions |-> 0, total_allocated |-> 0, grand_total_check |-> 0]

(***************************************************************************)
(* num_to_excel_col (nested in create_excel_with_formulas): the label is a *)
(* sequence of letters, leftmost first.                                    *)
(***************************************************************************)
RECURSIVE ExcelColLoopNoDecrement(_, _)
\* a variant of the loop without n -= 1: plain base 26 with A as the digit 0
ExcelColLoopNoDecrement(n, result) ==
    IF n > 0
    THEN ExcelColLoopNoDecrement(n \div 26, <<UpperCase[(n % 26) + 1]>> \o result)
    ELSE result

RECURSIVE ExcelColLoop(_, _)
\* while n > 0: n -= 1; result = chr(n % 26 + ord('A')) + result; n //= 26
ExcelColLoop(n, result) ==
    IF n > 0
    THEN ExcelColLoop((n - 1) \div 26, <<UpperCase[((n - 1) % 26) + 1]>> \o result)
    ELSE result

num_to_excel_col(n) == ExcelColLoop(n, <<>>)

(***************************************************************************)
(* create_excel_with_formulas.  A cell of the enhanced table is            *)
(* [k, v, cols, rows]: a cell copied from the processed table keeps its k  *)
(* and v with no cols and rows; a formula cell has the f-string of the     *)
(* source as k, and the column letters and the row numbers that fill its   *)
(* placeholders, in the order they appear, as cols and rows.               *)
(***************************************************************************)
Plain(c) == [k |-> c.k, v |-> c.v, cols |-> <<>>, rows |-> <<>>]

Formula(fstring, letters, numbers) ==
    [k |-> fstring, v |-> 0, cols |-> letters, rows |-> numbers]

\* enhanced_df = df.copy()
CopyTable(t) ==
    [cols |-> t.cols,
     rows |-> [r \in 1..NumRows(t) |->
                 [c \in 1..Len(t.cols) |-> Plain(t.rows[r][c])]]]

\* columns.index(name) + 1, as a column letter
ColLetter(t, name) == num_to_excel_col(ColIdx(t, name))

\* the row number without the header row
RowNumNoHeader(i) == i + 1

\* row_num = i + 2 for the 0-based i: Excel rows start at 1, plus the header
RowNum(i) == i + 2

\* the four formula cells of data row i (0-based)
TotalAllocatedFormula(t, i) ==
    Formula("=SUM({entity_range_start}{row_num}:{entity_range_end}{row_num})",
            << ColLetter(t, ENTITIES[1]), ColLetter(t, ENTITIES[Len(ENTITIES)]) >>,
            << RowNum(i), RowNum(i) >>)

AllocationCheckFormula(t, i) ==
    Formula("=(D{row_num}+E{row_num})-{total_allocated_col_letter}{row_num}",
            << ColLetter(t, "Total_Allocated") >>,
            << RowNum(i), RowNum(i), RowNum(i) >>)

AllocationStatusFormula(t, i) ==
    Formula("=IF(ABS({allocation_check_col_letter}{row_num})<0.01,\"Balanced\",\"Off by $\"&ROUND({allocation_check_col_letter}{row_num},2))",
            << ColLetter(t, "Allocation_Check"), ColLetter(t, "Allocation_Check") >>,
            << RowNum(i), RowNum(i) >>)

PropertyFormula(t, i) ==
    Formula("=IF({rlv22_col_letter}{row_num}<>0,\"Required\",\"\")",
            << ColLetter(t, "RLV22 LLC") >>,
            << RowNum(i) >>)

\* for i in range(num_rows): the four .iloc assignments of row i
FormulaRow(t, row, i) ==
    [c \in 1..Len(t.cols) |->
        CASE t.cols[c] = "Total_Allocated" -> TotalAllocatedFormula(t, i)
          [] t.cols[c] = "Allocation_Check" -> AllocationCheckFormula(t, i)
          [] t.cols[c] = "Allocation_Status" -> AllocationStatusFormula(t, i)
          [] t.cols[c] = "Property" -> PropertyFormula(t, i)
          [] OTHER -> row[c]]

\* f"=SUM({col_letter}2:{col_letter}{num_rows + 1})"
ColumnSumFormula(t, name) ==
    Formula("=SUM({col_letter}2:{col_letter}{num_rows + 1})",
            << ColLetter(t, name), ColLetter(t, name) >>,
            << NumRows(t) + 1 >>)

RECURSIVE EntityTotalsRow(_, _, _)
\* for entity in ENTITIES: totals_row[entity] = the column's SUM
EntityTotalsRow(t, totals, i) ==
    IF i > Len(ENTITIES) THEN totals
    ELSE EntityTotalsRow(t,
             IF HasCol(t, ENTITIES[i])
             THEN [totals EXCEPT ![ENTITIES[i]] = ColumnSumFormula(t, ENTITIES[i])]
             ELSE totals,
             i + 1)

\* the totals_row dict, its keys assigned in the order of the source
TotalsRow(t, amount) ==
    LET num_rows == NumRows(t)
        totals_row_num == num_rows + 2
        t0 == [name \in Range(t.cols) |-> Plain(EmptyString)]
        t1 == [t0 EXCEPT ![t.cols[1]] =
                 [k |-> "TOTALS", v |-> 0, cols |-> <<>>, rows |-> <<>>]]
        t2 == [t1 EXCEPT ![amount] = ColumnSumFormula(t, amount)]
        t3 == EntityTotalsRow(t, t2, 1)
        t4 == [t3 EXCEPT !["Total_Allocated"] = ColumnSumFormula(t, "Total_Allocated")]
        t5 == [t4 EXCEPT !["Allocation_Check"] =
                 Formula("=(SUM(D2:D{num_rows + 1})+SUM(E2:E{num_rows + 1}))-SUM({total_allocated_col_letter}2:{total_allocated_col_letter}{num_rows + 1})",
                         << ColLetter(t, "Total_Allocated"), ColLetter(t, "Total_Allocated") >>,
                         << num_rows + 1, num_rows + 1, num_rows + 1 >>)]
        t6 == [t5 EXCEPT !["Allocation_Status"] =
                 Formula("=IF(ABS({allocation_check_col_letter}{totals_row_num})<0.01,\"ALL BALANCED\",\"TOTAL OFF by $\"&ROUND({allocation_check_col_letter}{totals_row_num},2))",
                         << ColLetter(t, "Allocation_Check"), ColLetter(t, "Allocation_Check") >>,
                         << totals_row_num, totals_row_num >>)]
        t7 == [t6 EXCEPT !["Property"] =
                 Formula("=COUNTIF({property_col_letter}2:{property_col_letter}{num_rows + 1},\"Required\")&\" Required\"",
                         << ColLetter(t, "Property"), ColLetter(t, "Property") >>,
                         << num_rows + 1 >>)]
    IN  [c \in 1..Len(t.cols) |-> t7[t.cols[c]]]

create_excel_with_formulas(t, amount) ==
    LET enhanced == CopyTable(t)
        data == [r \in 1..NumRows(t) |-> FormulaRow(t, enhanced.rows[r], r - 1)]
    IN  \* pd.concat([enhanced_df, pd.DataFrame([totals_row])], ignore_index=True)
        [cols |-> t.cols, rows |-> Append(data, TotalsRow(t, amount))]

(***************************************************************************)
(* The summary metrics and the summary report (module level).              *)
(***************************************************************************)
\* total_amount, total_allocated, allocation_difference
SummaryMetrics(t, amount) ==
    LET total_amount == SumCells(Col(t, amount))
        total_allocated == SumCells(Col(t, "Total_Allocated"))
    IN  [total_amount |-> total_amount,
         total_allocated |-> total_allocated,
         allocation_difference |-> total_amount - total_allocated]

NoMetrics == [total_amount |-> 0, total_allocated |-> 0, allocation_difference |-> 0]

\* summary_df: the amounts as their :.2f text shows them, in cents
SummaryReport(t, m, val, amount) ==
    [total_transactions |-> NumRows(t),
     total_amount |-> Format2f(m.total_amount),
     total_allocated |-> Format2f(m.total_allocated),
     allocation_check |-> Format2f(m.allocation_difference),
     unbalanced_transactions |-> val.unbalanced_count,
     amount_column_used |-> amount]

NoSummary ==
    [total_transactions |-> 0, total_amount |-> 0, total_allocated |-> 0,
     allocation_check |-> 0, unbalanced_transactions |-> 0,
     amount_column_used |-> None]

(***************************************************************************)
(* Uploaded tables.  A column is a text column (every cell a non-numeric   *)
(* string) or a number column; the number cells of a row run through       *)
(* StatementValues, column after column, from the row's own offset, so     *)
(* neighbouring columns hold a charge and a refund, a refund and a blank,  *)
(* a blank and a sub-cent amount, and so on.  specials are header names    *)
(* that may each replace the plain name of one column; the plain names    *)
(* are those of a bank export with its Debit and Credit in columns D and E.*)
(***************************************************************************)
StatementValues == << Num(100000), Num(-30000), NaN, Num(4) >>

Headers(n, specials) ==
    { [i \in 1..n |-> IF h[i] = "plain" THEN PlainNames[i] ELSE h[i]] :
        h \in { g \in [1..n -> specials \cup {"plain"}] :
                  \A i, j \in 1..n : (i # j /\ g[i] # "plain") => g[i] # g[j] } }

Tables(n, m, specials) ==
    { [cols |-> header,
       rows |-> [r \in 1..m |->
                   [c \in 1..n |->
                      IF kinds[c] = "text" THEN Text
                      ELSE StatementValues[((offset[r] + c) % Len(StatementValues)) + 1]]]] :
        header \in Headers(n, specials),
        kinds \in [1..n -> {"text", "num"}],
        offset \in [1..m -> 1..Len(StatementValues)] }

UploadSpecials == {}

DetectSpecials == {"Amount", "Billing AMOUNT", "Memo"}

(***************************************************************************)
(* The upload pipeline (module level of app.py): one run of the script.    *)
(***************************************************************************)
Init ==
    /\ pc = "idle"
    /\ df = NoTable
    /\ detected = None
    /\ selected = 0
    /\ manual_amount_column = AutoDetect
    /\ amount_column = None
    /\ processed_df = NoTable
    /\ edits = 0
    /\ validation = NoValidation
    /\ exports = {}
    /\ metrics = NoMetrics
    /\ enhanced_df = NoTable
    /\ summary_df = NoSummary
    /\ excel_n = 0
    /\ excel_col = <<>>

\* df = pd.read_csv(uploaded_file)
Upload ==
    /\ pc = "idle"
    /\ \E n \in 1..MaxCols, m \in 0..MaxRows :
         \E t \in Tables(n, m, UploadSpecials) : df' = t
    /\ pc' = "loaded"
    /\ UNCHANGED <<detected, selected, manual_amount_column, amount_column,
                   processed_df, validation, exports, edits, excel_n, excel_col,
                   metrics, enhanced_df, summary_df>>

\* amount_column = detect_amount_column(df)
DetectAmount ==
    /\ pc = "loaded"
    /\ detected' = detect_amount_column(df)
    /\ amount_column' = detected'
    /\ pc' = IF detected' = None THEN "select" ELSE "override"
    /\ UNCHANGED <<df, selected, manual_amount_column, processed_df, validation,
                   exports, edits, excel_n, excel_col,
                   metrics, enhanced_df, summary_df>>

\* amount_column = st.selectbox("Select the amount column:", df.columns.tolist()):
\* the widget returns its current option, the first one until the user picks
SelectManually ==
    /\ pc = "select"
    /\ \E i \in 1..Len(df.cols) :
         /\ selected' = i
         /\ amount_column' = df.cols[i]
    /\ pc' = "button"
    /\ UNCHANGED <<df, detected, manual_amount_column, processed_df, validation,
                   exports, edits, excel_n, excel_col,
                   metrics, enhanced_df, summary_df>>

\* if st.button("Process with selected column"): st.rerun()
ButtonRerun ==
    /\ pc = "button"
    /\ pc' = "loaded"
    /\ detected' = None
    /\ selected' = 0
    /\ amount_column' = None
    /\ UNCHANGED <<df, manual_amount_column, processed_df, validation, exports,
                   edits, excel_n, excel_col,
                   metrics, enhanced_df, summary_df>>

\* the button was not clicked in this run
ButtonIdle ==
    /\ pc = "button"
    /\ pc' = "override"
    /\ UNCHANGED <<df, detected, selected, manual_amount_column, amount_column,
                   processed_df, validation, exports, edits, excel_n, excel_col,
                   metrics, enhanced_df, summary_df>>

\* manual_amount_column = st.selectbox("Override amount column:", ['Auto-detect'] + columns)
ManualOverride ==
    /\ pc = "override"
    /\ \E choice \in {AutoDetect} \cup Range(df.cols) :
         /\ manual_amount_column' = choice
         /\ amount_column' = IF choice # AutoDetect THEN choice ELSE amount_column
    /\ pc' = "resolved"
    /\ UNCHANGED <<df, detected, selected, processed_df, validation, exports,
                   edits, excel_n, excel_col,
                   metrics, enhanced_df, summary_df>>

\* if amount_column: processed_df = process_credit_card_data(df, amount_column),
\* followed by the summary metrics shown above the results
Process ==
    /\ pc = "resolved"
    /\ amount_column # None
    /\ processed_df' = process_credit_card_data(df, amount_column)
    /\ metrics' = SummaryMetrics(processed_df', amount_column)
    /\ pc' = "processed"
    /\ UNCHANGED <<df, detected, selected, manual_amount_column, amount_column,
                   validation, exports, edits, excel_n, excel_col,
                   enhanced_df, summary_df>>

\* validation = validate_allocations(processed_df, amount_column)
Validate ==
    /\ pc = "processed"
    /\ validation' = validate_allocations(processed_df, amount_column)
    /\ pc' = "validated"
    /\ UNCHANGED <<df, detected, selected, manual_amount_column, amount_column,
                   processed_df, exports, edits, excel_n, excel_col,
                   metrics, enhanced_df, summary_df>>

\* enhanced_df = create_excel_with_formulas(processed_df, amount_column), and
\* the three download buttons are rendered with their files: enhanced_df,
\* processed_df and summary_df
Export ==
    /\ pc = "validated"
    /\ enhanced_df' = create_excel_with_formulas(processed_df, amount_column)
    /\ summary_df' = SummaryReport(processed_df, metrics, validation, amount_column)
    /\ exports' = {"enhanced", "basic", "summary"}
    /\ pc' = "done"
    /\ UNCHANGED <<df, detected, selected, manual_amount_column, amount_column,
                   processed_df, validation, edits, excel_n, excel_col, metrics>>

Next ==
    \/ Upload
    \/ DetectAmount
    \/ SelectManually
    \/ ButtonRerun
    \/ ButtonIdle
    \/ ManualOverride
    \/ Process
    \/ Validate
    \/ Export

Spec == Init /\ [][Next]_vars

(***************************************************************************)
(* What the properties below read off a state.                             *)
(***************************************************************************)
Processed == pc \in {"processed", "validated", "done"}

RowIds == 1..NumRows(processed_df)

\* the source table's cell, and what it is worth as an amount
Src(r, name) == Col(df, name)[r]

Worth(c) == IF c.k = "num" THEN c.v ELSE 0

Out(r, name) == Col(processed_df, name)[r]

OtherEntities == Range(ENTITIES) \ {"Panola Holdings LLC"}

\* C1: after process_credit_card_data, with the entity columns as the
\* default allocation left them, every row has Allocation_Check = 0 and
\* Allocation_Status = 'Balanced', whatever the table's width and amount column.
C1_DefaultAlwaysBalanced ==
    Processed =>
        \A r \in RowIds :
            /\ Out(r, "Allocation_Check") = Num(0)
            /\ Out(r, "Allocation_Status").k = "Balanced"

\* C2: a source table of at least 6 columns whose 4th and 5th columns are
\* numeric gets, in every row, Panola Holdings LLC = D + E (a blank counting
\* as 0) and 0 in each of the other five entity columns.
C2_PanolaIsDPlusE ==
    (/\ Processed
     /\ Len(df.cols) >= 6
     /\ NumericDtype(df, df.cols[4])
     /\ NumericDtype(df, df.cols[5])) =>
        \A r \in RowIds :
            /\ Out(r, "Panola Holdings LLC")
                 = Num(Worth(Src(r, df.cols[4])) + Worth(Src(r, df.cols[5])))
            /\ \A e \in OtherEntities : Out(r, e) = Num(0)

\* C2's case: D = 100.00 and E = -30.00 in a six-column table give Panola 70.00.
C2_Witness ==
    /\ Processed
    /\ Len(df.cols) >= 6
    /\ \E r \in RowIds :
         /\ Src(r, df.cols[4]) = Num(100000)
         /\ Src(r, df.cols[5]) = Num(-30000)
         /\ Out(r, "Panola Holdings LLC") = Num(70000)
         /\ amount_column \notin {df.cols[4], df.cols[5]}

\* C3: a source table of fewer than 6 columns falls back to the amount
\* column: every row's Panola Holdings LLC is the row's amount, and
\* Allocation_Check is that amount minus Total_Allocated.
C3_FallbackBelowSixColumns ==
    (Processed /\ Len(df.cols) < 6) =>
        \A r \in RowIds :
            /\ Out(r, "Panola Holdings LLC") = Num(Worth(Src(r, amount_column)))
            /\ Out(r, "Allocation_Check")
                 = Num(Worth(Src(r, amount_column)) - Out(r, "Total_Allocated").v)

HasText(t, name) == \E r \in 1..NumRows(t) : Col(t, name)[r].k = "text"

\* C4: with at least 6 columns and a non-numeric value in the 4th or 5th
\* column, the D+E sum is not used: every row's Panola Holdings LLC is the
\* row's amount-column value.
C4_FallbackOnNonNumericDE ==
    (/\ Processed
     /\ Len(df.cols) >= 6
     /\ (HasText(df, df.cols[4]) \/ HasText(df, df.cols[5]))) =>
        \A r \in RowIds :
            Out(r, "Panola Holdings LLC") = Num(Worth(Src(r, amount_column)))

\* detection has run, found nothing, and the user touched neither selectbox
Undetected ==
    /\ pc \notin {"idle", "loaded"}
    /\ detected = None
    /\ selected <= 1
    /\ manual_amount_column = AutoDetect

\* C5: in a run where detect_amount_column returns None and the user gives
\* no manual override, process_credit_card_data is never invoked and none
\* of the three export files is produced.
C5_HaltsWithoutAmountColumn ==
    Undetected => (~Processed /\ processed_df = NoTable /\ exports = {})

\* C6: in every processed row Total_Allocated is the sum of the six entity
\* cells, and Allocation_Status is 'Balanced' exactly when
\* |Allocation_Check| < 0.01, otherwise 'Off by $' with the signed check
\* to the nearest cent.
C6_TotalAndStatus ==
    Processed =>
        \A r \in RowIds :
            LET check == Out(r, "Allocation_Check").v
                status == Out(r, "Allocation_Status")
            IN  /\ Out(r, "Total_Allocated").k = "num"
                /\ Out(r, "Total_Allocated").v
                     = Out(r, ENTITIES[1]).v + Out(r, ENTITIES[2]).v
                       + Out(r, ENTITIES[3]).v + Out(r, ENTITIES[4]).v
                       + Out(r, ENTITIES[5]).v + Out(r, ENTITIES[6]).v
                /\ status.k \in {"Balanced", "Off by $"}
                /\ (status.k = "Balanced") <=> (-10 < check /\ check < 10)
                /\ status.k = "Off by $" =>
                     /\ Abs(10 * status.v - check) <= 5
                     /\ (status.v < 0) <=> (check < 0)

\* C6's case: a row off by a negative amount next to a balanced row.
C6_Witness ==
    /\ Processed
    /\ \E r \in RowIds :
         /\ Out(r, "Allocation_Status") = [k |-> "Off by $", v |-> -3000]
         /\ Out(r, "Allocation_Check") = Num(-30000)
    /\ \E r \in RowIds :
         /\ Out(r, "Allocation_Status").k = "Balanced"
         /\ Out(r, "Allocation_Check") = Num(4)

\* C8: process_credit_card_data carries every source column other than the
\* amount column into its output with every cell unchanged, text in the 4th
\* or 5th column included, and leaves the input table itself as it was.
C8_OtherColumnsVerbatim ==
    [][(pc = "resolved" /\ pc' = "processed") =>
          /\ df' = df
          /\ \A c \in Range(df.cols) \ {amount_column} :
                /\ HasCol(processed_df', c)
                /\ Col(processed_df', c) = Col(df, c)]_vars

(***************************************************************************)
(* detect_amount_column on its own, over headers that mix listed names,    *)
(* names that only contain 'amount', and names that match nothing.         *)
(***************************************************************************)
InitDetect ==
    /\ pc = "loaded"
    /\ \E n \in 1..MaxDetectCols :
         \E t \in Tables(n, 1, DetectSpecials) : df = t
    /\ detected = None
    /\ selected = 0
    /\ manual_amount_column = AutoDetect
    /\ amount_column = None
    /\ processed_df = NoTable
    /\ edits = 0
    /\ validation = NoValidation
    /\ exports = {}
    /\ metrics = NoMetrics
    /\ enhanced_df = NoTable
    /\ summary_df = NoSummary
    /\ excel_n = 0
    /\ excel_col = <<>>

SpecDetect == InitDetect /\ [][DetectAmount]_vars

(***************************************************************************)
(* validate_allocations on its own, over processed tables of which cells   *)
(* of the entity columns or of Allocation_Check were changed afterwards.   *)
(***************************************************************************)
EditValues == {Num(10), Num(-25000), Num(4)}

InitEdited ==
    /\ pc = "processed"
    /\ \E n \in 4..MaxCols, m \in 1..MaxRows :
         \E t \in Tables(n, m, {}) :
            /\ \A c \in Range(t.cols) : NumericDtype(t, c)
            /\ df = t
            /\ processed_df = process_credit_card_data(t, "Debit")
    /\ detected = "Debit"
    /\ selected = 0
    /\ manual_amount_column = AutoDetect
    /\ amount_column = "Debit"
    /\ edits = 0
    /\ validation = NoValidation
    /\ exports = {}
    /\ metrics = SummaryMetrics(processed_df, "Debit")
    /\ enhanced_df = NoTable
    /\ summary_df = NoSummary
    /\ excel_n = 0
    /\ excel_col = <<>>

\* a cell of the processed table is overwritten before validation
EditCell ==
    /\ pc = "processed"
    /\ edits < MaxEdits
    /\ \E r \in 1..NumRows(processed_df),
          c \in Range(ENTITIES) \cup {"Allocation_Check"},
          x \in EditValues :
         processed_df' =
            SetCol(processed_df, c, [Col(processed_df, c) EXCEPT ![r] = x])
    /\ edits' = edits + 1
    /\ UNCHANGED <<pc, df, detected, selected, manual_amount_column, amount_column,
                   validation, exports, excel_n, excel_col,
                   metrics, enhanced_df, summary_df>>

NextEdited ==
    \/ EditCell
    \/ Validate

SpecValidate == InitEdited /\ [][NextEdited]_vars

(***************************************************************************)
(* num_to_excel_col on its own.                                            *)
(***************************************************************************)
InitExcel ==
    /\ pc = "excel"
    /\ excel_n \in 1..MaxExcelCol
    /\ excel_col = <<>>
    /\ df = NoTable
    /\ detected = None
    /\ selected = 0
    /\ manual_amount_column = AutoDetect
    /\ amount_column = None
    /\ processed_df = NoTable
    /\ edits = 0
    /\ validation = NoValidation
    /\ exports = {}
    /\ metrics = NoMetrics
    /\ enhanced_df = NoTable
    /\ summary_df = NoSummary

ExcelCol ==
    /\ pc = "excel"
    /\ excel_col' = num_to_excel_col(excel_n)
    /\ pc' = "excel_done"
    /\ UNCHANGED <<df, detected, selected, manual_amount_column, amount_column,
                   processed_df, edits, validation, exports, excel_n,
                   metrics, enhanced_df, summary_df>>

SpecExcel == InitExcel /\ [][ExcelCol]_vars

RECURSIVE SumOver(_, _)
\* the sum of f over the set S
SumOver(f, S) ==
    IF S = {} THEN 0
    ELSE LET x == CHOOSE y \in S : TRUE IN f[x] + SumOver(f, S \ {x})

Validated == pc \in {"validated", "done"}

\* C7: validate_allocations, on any table, edited or not, returns
\* unbalanced_count = the number of rows with |Allocation_Check| >= 0.01,
\* total_unallocated = the sum of Allocation_Check over exactly those rows,
\* and entity_totals[e] = the sum of entity e's column over all rows.
C7_ValidationCounts ==
    Validated =>
        LET check == [r \in RowIds |-> Out(r, "Allocation_Check").v]
            off == {r \in RowIds : check[r] >= 10 \/ check[r] <= -10}
        IN  /\ validation.unbalanced_count = Cardinality(off)
            /\ validation.total_unallocated
                 = SumOver(check, RowIds) - SumOver(check, RowIds \ off)
            /\ \A e \in Range(ENTITIES) :
                 validation.entity_totals[e]
                   = SumOver([r \in RowIds |-> Out(r, e).v], RowIds)

\* C7's case: an edited table with a row off by exactly 0.01 and a balanced
\* row whose check is not zero.
C7_Witness ==
    /\ Validated
    /\ edits > 0
    /\ \E r \in RowIds : Out(r, "Allocation_Check") = Num(10)
    /\ \E r \in RowIds : Out(r, "Allocation_Check") = Num(4)
    /\ validation.unbalanced_count = 1
    /\ validation.total_unallocated = 10

LetterValue(ch) == CHOOSE j \in 1..26 : UpperCase[j] = ch

RECURSIVE Bijective26(_)
\* the bijective base-26 value of a label: A = 1, ..., Z = 26, AA = 27
Bijective26(label) ==
    IF Len(label) = 0 THEN 0
    ELSE 26 * Bijective26(SubSeq(label, 1, Len(label) - 1))
         + LetterValue(label[Len(label)])

\* C9: num_to_excel_col(n), n >= 1, is a non-empty string over A..Z whose
\* bijective base-26 value is n; 1 -> A, 26 -> Z, 27 -> AA, 52 -> AZ,
\* 703 -> AAA.
C9_BijectiveBase26 ==
    pc = "excel_done" =>
        /\ Len(excel_col) >= 1
        /\ \A i \in 1..Len(excel_col) : excel_col[i] \in Range(UpperCase)
        /\ Bijective26(excel_col) = excel_n
        /\ excel_n = 1 => excel_col = <<"A">>
        /\ excel_n = 26 => excel_col = <<"Z">>
        /\ excel_n = 27 => excel_col = <<"A", "A">>
        /\ excel_n = 52 => excel_col = <<"A", "Z">>
        /\ excel_n = 703 => excel_col = <<"A", "A", "A">>

\* C9's case: the first three-letter label.
C9_Witness ==
    /\ pc = "excel_done"
    /\ excel_n = 703
    /\ excel_col = <<"A", "A", "A">>

\* the header names that contain 'amount' in some letter case
AmountLikeNames == {"Amount", "Billing AMOUNT"}

Least(S) == CHOOSE x \in S : \A y \in S : x <= y

\* C10: detect_amount_column returns the earliest name of its priority list
\* that is a column, wherever that column sits; failing that, the first
\* column in table order that is numeric-typed or whose header contains
\* 'amount' in any letter case; None only when no column qualifies; and a
\* result other than None is a column of the table.
C10_DetectAmountColumn ==
    pc \in {"select", "override"} =>
        LET listed == {i \in 1..Len(possible_amount_columns) :
                          possible_amount_columns[i] \in Range(df.cols)}
            likely == {j \in 1..Len(df.cols) :
                          \/ \A r \in 1..NumRows(df) : df.rows[r][j].k # "text"
                          \/ df.cols[j] \in AmountLikeNames}
        IN  /\ listed # {} => detected = possible_amount_columns[Least(listed)]
            /\ (listed = {} /\ likely # {}) => detected = df.cols[Least(likely)]
            /\ (listed = {} /\ likely = {}) => detected = None
            /\ detected # None => detected \in Range(df.cols)

\* C10's case: 'Debit' sits before 'Amount' in the table, and 'Amount', the
\* earlier name of the list, is returned.
C10_Witness ==
    /\ pc = "override"
    /\ detected = "Amount"
    /\ HasCol(df, "Debit")
    /\ ColIdx(df, "Debit") < ColIdx(df, "Amount")

(***************************************************************************)
(* The enhanced table.                                                     *)
(***************************************************************************)
Exported == pc = "done"

\* the cell of the enhanced table in data row r (1-based) under a column
Enh(r, name) == enhanced_df.rows[r][ColIdx(enhanced_df, name)]

FormulaColumns ==
    {"Total_Allocated", "Allocation_Check", "Allocation_Status", "Property"}

\* C11: in the table create_excel_with_formulas returns, data row i (0-based)
\* has Total_Allocated = '=SUM(<first><i+2>:<last><i+2>)', where first..last
\* is a contiguous block of exactly six columns that hold the six entities in
\* the order of ENTITIES, and every row number in the four formula cells of
\* row i is i + 2.
C11_TotalAllocatedRange ==
    Exported =>
        \A r \in RowIds :
            LET i == r - 1
                cell == Enh(r, "Total_Allocated")
                first == Bijective26(cell.cols[1])
                last == Bijective26(cell.cols[2])
            IN  /\ cell.k = "=SUM({entity_range_start}{row_num}:{entity_range_end}{row_num})"
                /\ Len(cell.cols) = 2
                /\ last - first + 1 = Len(ENTITIES)
                /\ Len(ENTITIES) = 6
                /\ \A j \in 1..Len(ENTITIES) :
                       enhanced_df.cols[first + j - 1] = ENTITIES[j]
                /\ \A c \in FormulaColumns :
                       /\ Len(Enh(r, c).rows) >= 1
                       /\ \A x \in Range(Enh(r, c).rows) : x = i + 2

\* a two-row table was exported: its second data row is spreadsheet row 3
C11_Witness ==
    /\ Exported
    /\ NumRows(processed_df) = 2
    /\ Enh(2, "Total_Allocated").rows = <<3, 3>>
    /\ Enh(2, "Total_Allocated").cols[1] # Enh(2, "Total_Allocated").cols[2]

\* C12: create_excel_with_formulas returns exactly one more row than the
\* processed table, appended last, and the first-column cell of that row is
\* the label 'TOTALS' whatever the amount column is, the table's first column
\* included.
C12_TotalsRowLabel ==
    Exported =>
        LET n == NumRows(processed_df)
        IN  /\ NumRows(enhanced_df) = n + 1
            /\ \A r \in 1..n : \A c \in 1..Len(processed_df.cols) :
                   processed_df.cols[c] \notin FormulaColumns =>
                       enhanced_df.rows[r][c] = Plain(processed_df.rows[r][c])
            /\ enhanced_df.rows[n + 1][1].k = "TOTALS"

(***************************************************************************)
(* What a spreadsheet computes from the formula cells of the enhanced      *)
(* table.  Spreadsheet row R is row R - 1 of the table (row 1 is the       *)
(* header) and a column letter is its bijective base-26 position.  SUM     *)
(* skips text and blank cells; + and - read a blank cell as 0 and give     *)
(* #VALUE! on a text cell.                                                 *)
(***************************************************************************)
SheetCell(letter, R) == enhanced_df.rows[R - 1][Bijective26(letter)]

ValueError == [k |-> "#VALUE!", v |-> 0]

\* =SUM(<first><R>:<last><R>)
EvalSum(cell) ==
    LET first == Bijective26(cell.cols[1])
        last == Bijective26(cell.cols[2])
        R == cell.rows[1]
    IN  Num(SumOver([c \in first..last |-> Worth(enhanced_df.rows[R - 1][c])],
                    first..last))

\* the value of a referenced cell: a number, a blank, a text or a SUM formula
SheetValue(cell) ==
    IF cell.k = "=SUM({entity_range_start}{row_num}:{entity_range_end}{row_num})"
    THEN EvalSum(cell)
    ELSE IF cell.k \in {"num", "nan"} THEN Num(Worth(cell))
    ELSE ValueError

\* =(D<R>+E<R>)-<total><R>
EvalCheck(cell) ==
    LET d == SheetValue(SheetCell(<<"D">>, cell.rows[1]))
        e == SheetValue(SheetCell(<<"E">>, cell.rows[2]))
        total == SheetValue(SheetCell(cell.cols[1], cell.rows[3]))
    IN  IF ValueError \in {d, e, total} THEN ValueError
        ELSE Num((d.v + e.v) - total.v)

\* =IF(ABS(<check><R>)<0.01,"Balanced","Off by $"&ROUND(<check><R>,2))
EvalStatus(cell) ==
    LET check == EvalCheck(SheetCell(cell.cols[1], cell.rows[1]))
    IN  IF check = ValueError THEN "#VALUE!"
        ELSE IF Abs(check.v) < Epsilon THEN "Balanced"
        ELSE "Off by $"

\* C13: the enhanced export agrees with the basic export: for every data row,
\* the emitted Total_Allocated formula and the emitted Allocation_Check formula
\* '=(D+E)-Total_Allocated', evaluated on the cells of the exported table,
\* give the Total_Allocated and the Allocation_Check that
\* process_credit_card_data computed, and the status formula gives 'Balanced'
\* exactly when the computed Allocation_Status is 'Balanced', for source
\* tables of every column count.
C13_FormulasAgreeWithComputed ==
    Exported =>
        \A r \in RowIds :
            /\ EvalSum(Enh(r, "Total_Allocated")) = Out(r, "Total_Allocated")
            /\ EvalCheck(Enh(r, "Allocation_Check")) = Out(r, "Allocation_Check")
            /\ (EvalStatus(Enh(r, "Allocation_Status")) = "Balanced")
                   <=> (Out(r, "Allocation_Status").k = "Balanced")

\* a four-column table was exported, a row of which is off balance: column E
\* of the spreadsheet is 'Panola Holdings LLC', in the formula as in the code
C13_Witness ==
    /\ Exported
    /\ Len(df.cols) = 4
    /\ enhanced_df.cols[5] = "Panola Holdings LLC"
    /\ \E r \in RowIds :
          /\ Out(r, "Total_Allocated").v # 0
          /\ EvalCheck(Enh(r, "Allocation_Check")).v >= Epsilon
          /\ EvalStatus(Enh(r, "Allocation_Status")) = "Off by $"

\* the sum of the per-row Allocation_Check values of the processed table
SumOfChecks == SumOver([r \in RowIds |-> Out(r, "Allocation_Check").v], RowIds)

\* C14: the grand-total check of the summary export (the sum of the resolved
\* amount column minus the sum of Total_Allocated) always equals the
\* grand_total_check that validate_allocations computes on the same processed
\* table, and both equal the sum of the per-row Allocation_Check values.
C14_GrandTotalChecksAgree ==
    Exported =>
        /\ summary_df.allocation_check = Format2f(metrics.allocation_difference)
        /\ metrics.allocation_difference = validation.grand_total_check
        /\ validation.grand_total_check = SumOfChecks


=============================================================================
